---- MODULE Spec2Model ----
(***************************************************************************)
(* Directional duplicate with collision propagation (src/code.js).         *)
(*                                                                         *)
(* The script holds the same declarations twice; a later function          *)
(* declaration replaces an earlier one of the same name, so the functions  *)
(* that run are the last ones: getDetectedGap (226), pushSiblings (236),   *)
(* performDuplicate (296) and expandSectionIfNeeded (373).                 *)
(*                                                                         *)
(* Lengths are counted in half layout units, so that the 0.5 margin of     *)
(* pushSiblings is the integer 1 and px(n) is n layout units.              *)
(***************************************************************************)
EXTENDS Integers, Sequences, FiniteSets, TLC

\* ------------------------------------------------------------------ bounds
NumNodes == 3        \* elements under the parent before the batch
MaxSel == 2          \* elements in the selection

\* --------------------------------------------------------------- constants
px(n) == n + n

margin == 1                          \* const margin = 0.5
SECTION_PADDING == px(80)
GapThreshold == px(400)              \* width > 400
WideGap == px(100)
NarrowGap == px(40)

NoGap == -1                          \* gap === null (auto detect)

Directions ==
    {"top", "bottom", "left", "right",
     "top-left", "top-right", "bottom-left", "bottom-right"}

Tokens ==
    [d \in Directions |->
        CASE d = "top" -> {"top"}
          [] d = "bottom" -> {"bottom"}
          [] d = "left" -> {"left"}
          [] d = "right" -> {"right"}
          [] d = "top-left" -> {"top", "left"}
          [] d = "top-right" -> {"top", "right"}
          [] d = "bottom-left" -> {"bottom", "left"}
          [] d = "bottom-right" -> {"bottom", "right"}]

\* direction.includes(tok)
Includes(d, tok) == tok \in Tokens[d]

\* ------------------------------------------------------------- scene input

Rect(x, y, w, h) == [x |-> px(x), y |-> px(y), width |-> px(w), height |-> px(h)]

\* the first is a line (height 0) inside the span the second one's duplicate to
\* the right takes; the fourth starts at x = 239.5, half a unit inside that span
Rects ==
    <<Rect(150, 50, 50, 0),
      Rect(0, 0, 100, 100), Rect(140, 0, 100, 100),
      [Rect(240, 0, 100, 100) EXCEPT !.x = @ - 1],
      Rect(130, 140, 100, 100), Rect(0, 0, 500, 100)>>

\* the rectangles laid out under an unlocked section: the collision cases are
\* explored under the plain frame, container adaptation reads positions alone
SectionRects == {2, 3, 5}

Gaps == {NoGap, 0}

ParentKinds == {"FREE", "AUTO", "SECTION"}

\* ---------------------------------------------------------- pure functions
\* getDetectedGap(nodes): nodes is the selection as a sequence of node records
getDetectedGap(nodes) ==
    IF Len(nodes) = 0 THEN NarrowGap
    ELSE IF nodes[1].width > GapThreshold THEN WideGap ELSE NarrowGap

\* the explicit gap taken by truthiness (gap || ...): 0 counts as absent
EffectiveGapFalsy(gap, nd) ==
    IF gap # NoGap /\ gap # 0 THEN gap
    ELSE IF nd.width > GapThreshold THEN WideGap ELSE NarrowGap

\* const effectiveGap = (gap !== undefined && gap !== null) ? gap : (...)
EffectiveGap(gap, nd) ==
    IF gap # NoGap THEN gap
    ELSE IF nd.width > GapThreshold THEN WideGap ELSE NarrowGap

\* 'layoutMode' in parent && parent.layoutMode !== 'NONE'
isAutoLayout(p) == p.layoutMode # "ABSENT" /\ p.layoutMode # "NONE"

\* mutant of TargetRect: the original's own rectangle, the offset forgotten
TargetRectUnshifted(nd, d, shiftX, shiftY) ==
    [x |-> nd.x, y |-> nd.y, width |-> nd.width, height |-> nd.height]

\* the starting target rectangle for the new duplicate
TargetRect(nd, d, shiftX, shiftY) ==
    [x |-> IF Includes(d, "left") THEN nd.x - shiftX
           ELSE IF Includes(d, "right") THEN nd.x + shiftX ELSE nd.x,
     y |-> IF Includes(d, "top") THEN nd.y - shiftY
           ELSE IF Includes(d, "bottom") THEN nd.y + shiftY ELSE nd.y,
     width |-> nd.width,
     height |-> nd.height]

\* the overlap test without the margin
OverlapsNoMargin(sibling, rect) ==
    /\ sibling.x < rect.x + rect.width
    /\ sibling.x + sibling.width > rect.x
    /\ sibling.y < rect.y + rect.height
    /\ sibling.y + sibling.height > rect.y

\* const overlaps = ...  (margin is 0.5, i.e. 1 half unit)
Overlaps(sibling, rect) ==
    /\ sibling.x < rect.x + rect.width - margin
    /\ sibling.x + sibling.width > rect.x + margin
    /\ sibling.y < rect.y + rect.height - margin
    /\ sibling.y + sibling.height > rect.y + margin

\* mutant of FutureRect: the sibling's current rectangle is queued
FutureRectUnshifted(sibling, d, shiftX, shiftY) ==
    [x |-> sibling.x, y |-> sibling.y, width |-> sibling.width, height |-> sibling.height]

\* the sibling's future position, pushed on checkQueue
FutureRect(sibling, d, shiftX, shiftY) ==
    [x |-> sibling.x + (IF Includes(d, "left") THEN -shiftX
                        ELSE IF Includes(d, "right") THEN shiftX ELSE 0),
     y |-> sibling.y + (IF Includes(d, "top") THEN -shiftY
                        ELSE IF Includes(d, "bottom") THEN shiftY ELSE 0),
     width |-> sibling.width,
     height |-> sibling.height]

\* mutant of InitialProcessed: the traversal starts from an empty processed set
InitialProcessedNone(excludedIds) == {}

\* const processed = new Set(excludedIds)
InitialProcessed(excludedIds) == excludedIds

\* a pass that collects every hit twice
RECURSIVE ScanChildrenTwice(_, _, _, _, _)
ScanChildrenTwice(nodes, kids, k, rect, processed) ==
    IF k > Len(kids) THEN << >>
    ELSE LET sibling == kids[k]
             rest == ScanChildrenTwice(nodes, kids, k + 1, rect, processed)
         IN  IF sibling \in processed THEN rest
             ELSE IF Overlaps(nodes[sibling], rect) THEN <<sibling, sibling>> \o rest
             ELSE rest

\* one pass of "for (const sibling of parent.children)" against rect: the
\* siblings added to nodesToMove, in child order.  A sibling is visited once
\* per pass, so the additions to processed made during the pass do not change it.
RECURSIVE ScanChildren(_, _, _, _, _)
ScanChildren(nodes, kids, k, rect, processed) ==
    IF k > Len(kids) THEN << >>
    ELSE LET sibling == kids[k]
             rest == ScanChildren(nodes, kids, k + 1, rect, processed)
         IN  IF sibling \in processed THEN rest
             ELSE IF Overlaps(nodes[sibling], rect) THEN <<sibling>> \o rest
             ELSE rest

Range(s) == {s[i] : i \in 1..Len(s)}

RECURSIVE FutureRects(_, _, _, _, _)
FutureRects(nodes, hits, d, shiftX, shiftY) ==
    IF hits = << >> THEN << >>
    ELSE <<FutureRect(nodes[Head(hits)], d, shiftX, shiftY)>>
             \o FutureRects(nodes, Tail(hits), d, shiftX, shiftY)

\* a traversal that checks the first rectangle of the queue and stops
TraverseOnce(nodes, kids, d, shiftX, shiftY, checkQueue, processed, nodesToMove) ==
    IF checkQueue = << >> THEN nodesToMove
    ELSE nodesToMove \o ScanChildren(nodes, kids, 1, Head(checkQueue), processed)

\* while (checkQueue.length > 0): result is nodesToMove in insertion order
RECURSIVE Traverse(_, _, _, _, _, _, _, _)
Traverse(nodes, kids, d, shiftX, shiftY, checkQueue, processed, nodesToMove) ==
    IF checkQueue = << >> THEN nodesToMove
    ELSE LET rect == Head(checkQueue)
             hits == ScanChildren(nodes, kids, 1, rect, processed)
         IN  Traverse(nodes, kids, d, shiftX, shiftY,
                      Tail(checkQueue) \o FutureRects(nodes, hits, d, shiftX, shiftY),
                      processed \cup Range(hits),
                      nodesToMove \o hits)

\* nodesToMove of pushSiblings(originalNode, direction, shiftX, shiftY, excludedIds)
NodesToMove(nodes, kids, original, d, shiftX, shiftY, excludedIds) ==
    Traverse(nodes, kids, d, shiftX, shiftY,
             <<TargetRect(nodes[original], d, shiftX, shiftY)>>,
             InitialProcessed(excludedIds), << >>)

\* mutant of MoveNode: a plain else in place of the tests for right and bottom
MoveNodeElse(nd, d, shiftX, shiftY) ==
    [nd EXCEPT
        !.x = IF Includes(d, "left") THEN @ - shiftX ELSE @ + shiftX,
        !.y = IF Includes(d, "top") THEN @ - shiftY ELSE @ + shiftY]

\* for (const node of nodesToMove) { node.x -= shiftX ... }
MoveNode(nd, d, shiftX, shiftY) ==
    [nd EXCEPT
        !.x = IF Includes(d, "left") THEN @ - shiftX
              ELSE IF Includes(d, "right") THEN @ + shiftX ELSE @,
        !.y = IF Includes(d, "top") THEN @ - shiftY
              ELSE IF Includes(d, "bottom") THEN @ + shiftY ELSE @]

\* pushSiblings: the node table after the call
pushSiblings(nodes, kids, original, d, shiftX, shiftY, excludedIds) ==
    LET moved == Range(NodesToMove(nodes, kids, original, d, shiftX, shiftY, excludedIds))
    IN  [n \in DOMAIN nodes |->
            IF n \in moved THEN MoveNode(nodes[n], d, shiftX, shiftY) ELSE nodes[n]]

\* clone.x = ..., clone.y = ...
ClonePosition(nd, d, shiftX, shiftY) ==
    [nd EXCEPT
        !.x = IF Includes(d, "left") THEN nd.x - shiftX
              ELSE IF Includes(d, "right") THEN nd.x + shiftX ELSE nd.x,
        !.y = IF Includes(d, "top") THEN nd.y - shiftY
              ELSE IF Includes(d, "bottom") THEN nd.y + shiftY ELSE nd.y]

\* a comparator that orders by ascending x whatever the direction
CompareAscendingX(a, b, d) == a.x - b.x

\* sort comparator of performDuplicate: negative when a goes before b
Compare(a, b, d) ==
    IF Includes(d, "right") THEN b.x - a.x
    ELSE IF Includes(d, "left") THEN a.x - b.x
    ELSE IF Includes(d, "bottom") THEN b.y - a.y
    ELSE IF Includes(d, "top") THEN a.y - b.y
    ELSE 0

\* stable insertion of id e into the sorted sequence s
RECURSIVE InsertSorted(_, _, _, _)
InsertSorted(nodes, s, e, d) ==
    IF s = << >> THEN <<e>>
    ELSE IF Compare(nodes[e], nodes[Head(s)], d) < 0 THEN <<e>> \o s
    ELSE <<Head(s)>> \o InsertSorted(nodes, Tail(s), e, d)

\* [...selection].sort(comparator): Array.prototype.sort is stable
RECURSIVE SortSelection(_, _, _)
SortSelection(nodes, sel, d) ==
    IF sel = << >> THEN << >>
    ELSE InsertSorted(nodes, SortSelection(nodes, SubSeq(sel, 1, Len(sel) - 1), d),
                      sel[Len(sel)], d)

\* parent.children.indexOf(node)
IndexOf(s, e) == CHOOSE k \in 1..Len(s) : s[k] = e

\* parent.insertChild(newIndex, clone), newIndex counted from 0
InsertChild(kids, newIndex, c) ==
    SubSeq(kids, 1, newIndex) \o <<c>> \o SubSeq(kids, newIndex + 1, Len(kids))

\* mutant of NewIndex: the original's index whatever the direction
NewIndexSame(kids, original, d) == IndexOf(kids, original) - 1

\* let newIndex = index + (right || bottom ? 1 : 0), index counted from 0
NewIndex(kids, original, d) ==
    (IndexOf(kids, original) - 1)
        + (IF Includes(d, "right") \/ Includes(d, "bottom") THEN 1 ELSE 0)

\* ----------------------------------------------------- expandSectionIfNeeded
\* if (node.x + node.width > parent.width - SECTION_PADDING) resizeParent(...)
GrowRight(p, nd) ==
    IF nd.x + nd.width > p.width - SECTION_PADDING
    THEN [p EXCEPT !.width = nd.x + nd.width + SECTION_PADDING] ELSE p

\* if (node.y + node.height > parent.height - SECTION_PADDING) resizeParent(...)
GrowBottom(p, nd) ==
    IF nd.y + nd.height > p.height - SECTION_PADDING
    THEN [p EXCEPT !.height = nd.y + nd.height + SECTION_PADDING] ELSE p

\* mutant of ShiftChildrenX: child.x += shift
ShiftChildrenXPlus(nodes, kids, shift) ==
    [n \in DOMAIN nodes |->
        IF n \in Range(kids) /\ ~nodes[n].locked
        THEN [nodes[n] EXCEPT !.x = @ + shift] ELSE nodes[n]]

\* for (const child of parent.children) if (!child.locked) child.x -= shift
ShiftChildrenX(nodes, kids, shift) ==
    [n \in DOMAIN nodes |->
        IF n \in Range(kids) /\ ~nodes[n].locked
        THEN [nodes[n] EXCEPT !.x = @ - shift] ELSE nodes[n]]

\* for (const child of parent.children) if (!child.locked) child.y -= shift
ShiftChildrenY(nodes, kids, shift) ==
    [n \in DOMAIN nodes |->
        IF n \in Range(kids) /\ ~nodes[n].locked
        THEN [nodes[n] EXCEPT !.y = @ - shift] ELSE nodes[n]]

\* if (node.x < SECTION_PADDING) { ... }
ExpandLeft(sc, id) ==
    LET nd == sc.node[id]
        shift == nd.x - SECTION_PADDING
    IN  IF nd.x < SECTION_PADDING
        THEN [node |-> ShiftChildrenX(sc.node, sc.children, shift),
              parent |-> [sc.parent EXCEPT !.width = @ - shift, !.x = @ + shift],
              children |-> sc.children]
        ELSE sc

\* if (node.y < SECTION_PADDING) { ... }
ExpandTop(sc, id) ==
    LET nd == sc.node[id]
        shift == nd.y - SECTION_PADDING
    IN  IF nd.y < SECTION_PADDING
        THEN [node |-> ShiftChildrenY(sc.node, sc.children, shift),
              parent |-> [sc.parent EXCEPT !.height = @ - shift, !.y = @ + shift],
              children |-> sc.children]
        ELSE sc

\* if (!parent || parent.type !== 'SECTION' || parent.locked) return;
Adapts(p) == p.type = "SECTION" /\ ~p.locked

\* expandSectionIfNeeded(node) on the scene sc = [node, parent, children]
expandSectionIfNeeded(sc, id) ==
    IF ~Adapts(sc.parent) THEN sc
    ELSE LET grown == [sc EXCEPT
                          !.parent = GrowBottom(GrowRight(@, sc.node[id]), sc.node[id])]
         IN  ExpandTop(ExpandLeft(grown, id), id)

\* -------------------------------------------------------------------- state
VARIABLES
    node,                 \* id -> [x, y, width, height, locked]
    children,             \* parent.children
    parent,               \* [type, layoutMode, locked, x, y, width, height]
    selection,            \* figma.currentPage.selection
    direction, gap, pushEnabled,           \* arguments of performDuplicate
    sortedSelection, i,   \* the for loop over sortedSelection
    processedIds, newSelection, autoLayoutWarning, lastUsedEffectiveGap,
    notes,                \* figma.notify calls, in order
    uiGap,                \* the gap last posted to the UI for the selection
    pc,                   \* "idle", "loop", "clone", "expand", "done"
    clone,                \* id of the clone being placed, 0 when none
    origin,               \* clone id -> id of the node it was cloned from
    node0,                \* the node table before the batch
    pre,                  \* the scene before the last step
    step                  \* name of the last step taken

vars ==
    <<node, children, parent, selection, direction, gap, pushEnabled,
      sortedSelection, i, processedIds, newSelection, autoLayoutWarning,
      lastUsedEffectiveGap, notes, uiGap, pc, clone, origin, node0, pre, step>>

Scene == [node |-> node, parent |-> parent, children |-> children]

ParentOf(kind, locked) ==
    [type |-> IF kind = "SECTION" THEN "SECTION" ELSE "FRAME",
     layoutMode |-> CASE kind = "SECTION" -> "ABSENT"
                      [] kind = "AUTO" -> "HORIZONTAL"
                      [] OTHER -> "NONE",
     locked |-> locked,
     x |-> px(1000), y |-> px(1000), width |-> px(400), height |-> px(400)]

Identity(n) == [k \in 1..n |-> k]

\* the children before the batch
Originals == DOMAIN node0

\* the elements of the set S of ids in ascending order
RECURSIVE Ascending(_)
Ascending(S) ==
    IF S = {} THEN << >>
    ELSE LET m == CHOOSE a \in S : \A b \in S : a <= b
         IN  <<m>> \o Ascending(S \ {m})

Reverse(s) == [k \in 1..Len(s) |-> s[Len(s) + 1 - k]]

\* selections of 1..MaxSel children, listed in child order or in reverse child
\* order (the order decides only how the stable sort breaks ties: Start takes
\* the reverse listing when it sorts differently)
Selections ==
    LET sets == {S \in SUBSET Originals : Cardinality(S) \in 1..MaxSel}
    IN  {Ascending(S) : S \in sets} \cup {Reverse(Ascending(S)) : S \in sets}

\* Layouts(n): every multiset of n rectangles of Rects (of SectionRects under an
\* unlocked section), laid on the children in one order (nothing in a free-form
\* parent depends on which child has which rectangle).  An auto layout parent
\* reads no rectangle beyond the widths and a locked section is handled as a
\* plain frame is: they get one layout per n.
Layouts(kind, plocked, n) ==
    IF kind = "AUTO" \/ plocked
    THEN {[k \in 1..n |-> Len(Rects) + 1 - k]}
    ELSE {r \in [1..n -> IF kind = "SECTION" THEN SectionRects ELSE DOMAIN Rects] :
             \A a, b \in 1..n : a < b => r[a] <= r[b]}

\* locked children matter to expandSectionIfNeeded alone: at most one, under an
\* unlocked section, and of children with the same rectangle the first
LockSets(kind, plocked, r, n) ==
    IF kind = "SECTION" /\ ~plocked
    THEN {{}} \cup {{k} : k \in {j \in 1..n : j = 1 \/ r[j] # r[j - 1]}}
    ELSE {{}}

Init ==
    /\ \E kind \in ParentKinds, plocked \in BOOLEAN :
          /\ plocked => kind = "SECTION"
          /\ parent = ParentOf(kind, plocked)
          /\ \E n \in 1..NumNodes :
                \E r \in Layouts(kind, plocked, n) : \E locks \in LockSets(kind, plocked, r, n) :
                   /\ node = [k \in 1..n |->
                                 [x |-> Rects[r[k]].x, y |-> Rects[r[k]].y,
                                  width |-> Rects[r[k]].width,
                                  height |-> Rects[r[k]].height,
                                  locked |-> k \in locks]]
                   /\ children = Identity(n)
    /\ node0 = node
    /\ selection = << >>
    /\ direction = "right"
    /\ gap = NoGap
    /\ pushEnabled = TRUE
    /\ sortedSelection = << >>
    /\ i = 1
    /\ processedIds = {}
    /\ newSelection = << >>
    /\ autoLayoutWarning = FALSE
    /\ lastUsedEffectiveGap = NarrowGap
    /\ notes = << >>
    /\ uiGap = getDetectedGap(<< >>)
    /\ pc = "idle"
    /\ clone = 0
    /\ origin = << >>
    /\ pre = Scene
    /\ step = "Init"

\* --------------------------------------------------------- performDuplicate
\* the empty-selection return without its figma.notify
EmptySelectionSilent ==
    /\ pc = "idle"
    /\ \E d \in Directions : direction' = d
    /\ selection' = << >>
    /\ pc' = "done"
    /\ uiGap' = getDetectedGap(<< >>)
    /\ pre' = Scene
    /\ step' = "EmptySelection"
    /\ UNCHANGED <<node0, node, children, parent, gap, pushEnabled, sortedSelection, i,
                   processedIds, newSelection, autoLayoutWarning, lastUsedEffectiveGap,
                   notes, clone, origin>>

\* if (selection.length === 0) { figma.notify(...); return; }
EmptySelection ==
    /\ pc = "idle"
    /\ \E d \in Directions : direction' = d
    /\ selection' = << >>
    /\ notes' = Append(notes, "empty")
    /\ pc' = "done"
    /\ uiGap' = getDetectedGap(<< >>)
    /\ pre' = Scene
    /\ step' = "EmptySelection"
    /\ UNCHANGED <<node0, node, children, parent, gap, pushEnabled, sortedSelection, i,
                   processedIds, newSelection, autoLayoutWarning, lastUsedEffectiveGap,
                   clone, origin>>

\* entry with a non-empty selection: sort, processedIds, loop variables; the
\* selectionchange handler has posted getDetectedGap of that selection to the UI
Start ==
    /\ pc = "idle"
    /\ \E d \in Directions, g \in Gaps, push \in BOOLEAN, sel \in Selections :
          /\ \/ sel = Ascending(Range(sel))
             \/ SortSelection(node, sel, d) # SortSelection(node, Ascending(Range(sel)), d)
          /\ direction' = d /\ gap' = g /\ pushEnabled' = push
          /\ selection' = sel
          /\ sortedSelection' = SortSelection(node, sel, d)
          /\ processedIds' = Range(sel)
    /\ newSelection' = << >>
    /\ autoLayoutWarning' = FALSE
    /\ lastUsedEffectiveGap' = NarrowGap
    /\ i' = 1
    /\ pc' = "loop"
    /\ uiGap' = getDetectedGap([k \in 1..Len(selection') |-> node[selection'[k]]])
    /\ pre' = Scene
    /\ step' = "Start"
    /\ UNCHANGED <<node0, node, children, parent, notes, clone, origin>>

Current == sortedSelection[i]
ShiftX == node[Current].width + lastUsedEffectiveGap
ShiftY == node[Current].height + lastUsedEffectiveGap
NextId == Len(children) + 1

\* auto layout branch: clone, insertChild, newSelection.push, autoLayoutWarning
AutoLayoutDuplicate ==
    /\ pc = "loop" /\ i <= Len(sortedSelection)
    /\ isAutoLayout(parent)
    /\ lastUsedEffectiveGap' = EffectiveGap(gap, node[Current])
    /\ node' = (NextId :> node[Current]) @@ node
    /\ origin' = (NextId :> Current) @@ origin
    /\ children' = InsertChild(children, NewIndex(children, Current, direction), NextId)
    /\ newSelection' = Append(newSelection, NextId)
    /\ autoLayoutWarning' = TRUE
    /\ i' = i + 1
    /\ pre' = Scene
    /\ step' = "AutoLayoutDuplicate"
    /\ UNCHANGED <<uiGap, node0, parent, selection, direction, gap, pushEnabled, sortedSelection,
                   processedIds, notes, pc, clone>>

\* auto layout branch, node.clone() or insertChild raises: catch, notify
AutoLayoutFails ==
    /\ pc = "loop" /\ i <= Len(sortedSelection)
    /\ isAutoLayout(parent)
    /\ lastUsedEffectiveGap' = EffectiveGap(gap, node[Current])
    /\ notes' = Append(notes, "failed")
    /\ i' = i + 1
    /\ pre' = Scene
    /\ step' = "AutoLayoutFails"
    /\ UNCHANGED <<uiGap, node0, node, children, parent, selection, direction, gap, pushEnabled,
                   sortedSelection, processedIds, newSelection, autoLayoutWarning,
                   pc, clone, origin>>

\* the free-form branch calling pushSiblings whatever pushEnabled says
PushStepAlways ==
    /\ pc = "loop" /\ i <= Len(sortedSelection)
    /\ ~isAutoLayout(parent)
    /\ LET eg == EffectiveGap(gap, node[Current])
       IN  /\ lastUsedEffectiveGap' = eg
           /\ node' = pushSiblings(node, children, Current, direction,
                                   node[Current].width + eg,
                                   node[Current].height + eg, processedIds)
    /\ pc' = "clone"
    /\ pre' = Scene
    /\ step' = "PushStep"
    /\ UNCHANGED <<uiGap, node0, children, parent, selection, direction, gap,
                   pushEnabled, sortedSelection, i, processedIds, newSelection,
                   autoLayoutWarning, notes, clone, origin>>

\* free-form branch up to the clone: effectiveGap, shiftX, shiftY, pushSiblings
PushStep ==
    /\ pc = "loop" /\ i <= Len(sortedSelection)
    /\ ~isAutoLayout(parent)
    /\ LET eg == EffectiveGap(gap, node[Current])
       IN  /\ lastUsedEffectiveGap' = eg
           /\ node' = IF pushEnabled
                      THEN pushSiblings(node, children, Current, direction,
                                        node[Current].width + eg,
                                        node[Current].height + eg, processedIds)
                      ELSE node
    /\ pc' = "clone"
    /\ pre' = Scene
    /\ step' = "PushStep"
    /\ UNCHANGED <<uiGap, node0, children, parent, selection, direction, gap, pushEnabled,
                   sortedSelection, i, processedIds, newSelection, autoLayoutWarning,
                   notes, clone, origin>>

\* the placement without processedIds.add(clone.id)
CloneAndPlaceUntracked ==
    /\ pc = "clone"
    /\ node' = (NextId :> ClonePosition(node[Current], direction, ShiftX, ShiftY)) @@ node
    /\ origin' = (NextId :> Current) @@ origin
    /\ children' = Append(children, NextId)
    /\ clone' = NextId
    /\ pc' = "expand"
    /\ pre' = Scene
    /\ step' = "CloneAndPlace"
    /\ UNCHANGED <<uiGap, node0, parent, selection, direction, gap, pushEnabled,
                   sortedSelection, i, processedIds, newSelection, autoLayoutWarning,
                   lastUsedEffectiveGap, notes>>

\* node.clone(); parent.appendChild(clone); clone.x = ...; clone.y = ...;
\* processedIds.add(clone.id)
CloneAndPlace ==
    /\ pc = "clone"
    /\ node' = (NextId :> ClonePosition(node[Current], direction, ShiftX, ShiftY)) @@ node
    /\ origin' = (NextId :> Current) @@ origin
    /\ children' = Append(children, NextId)
    /\ processedIds' = processedIds \cup {NextId}
    /\ clone' = NextId
    /\ pc' = "expand"
    /\ pre' = Scene
    /\ step' = "CloneAndPlace"
    /\ UNCHANGED <<uiGap, node0, parent, selection, direction, gap, pushEnabled, sortedSelection, i,
                   newSelection, autoLayoutWarning, lastUsedEffectiveGap, notes>>

\* the exception of node.clone() leaving performDuplicate uncaught
CloneFailsEscapes ==
    /\ pc = "clone"
    /\ pc' = "done"
    /\ pre' = Scene
    /\ step' = "CloneFails"
    /\ UNCHANGED <<uiGap, node0, node, children, parent, selection, direction, gap, pushEnabled,
                   sortedSelection, i, processedIds, newSelection, autoLayoutWarning,
                   lastUsedEffectiveGap, notes, clone, origin>>

\* node.clone() raises after pushSiblings has run: catch, notify, next element
CloneFails ==
    /\ pc = "clone"
    /\ notes' = Append(notes, "failed")
    /\ i' = i + 1
    /\ pc' = "loop"
    /\ pre' = Scene
    /\ step' = "CloneFails"
    /\ UNCHANGED <<uiGap, node0, node, children, parent, selection, direction, gap, pushEnabled,
                   sortedSelection, processedIds, newSelection, autoLayoutWarning,
                   lastUsedEffectiveGap, clone, origin>>

\* expandSectionIfNeeded(clone); newSelection.push(clone)
Expand ==
    /\ pc = "expand"
    /\ LET sc == expandSectionIfNeeded(Scene, clone)
       IN  /\ node' = sc.node
           /\ parent' = sc.parent
    /\ newSelection' = Append(newSelection, clone)
    /\ clone' = 0
    /\ i' = i + 1
    /\ pc' = "loop"
    /\ pre' = Scene
    /\ step' = "Expand"
    /\ UNCHANGED <<uiGap, node0, children, selection, direction, gap, pushEnabled, sortedSelection,
                   processedIds, autoLayoutWarning, lastUsedEffectiveGap, notes, origin>>

\* the conditions under which expandSectionIfNeeded calls resizeParent
Resizes(p, nd) ==
    \/ nd.x + nd.width > p.width - SECTION_PADDING
    \/ nd.y + nd.height > p.height - SECTION_PADDING
    \/ nd.x < SECTION_PADDING
    \/ nd.y < SECTION_PADDING

\* the first resizeParent call of expandSectionIfNeeded raises: nothing of the
\* adaptation is applied, newSelection.push(clone) is skipped; catch, notify
ExpandFails ==
    /\ pc = "expand"
    /\ Adapts(parent) /\ Resizes(parent, node[clone])
    /\ notes' = Append(notes, "failed")
    /\ clone' = 0
    /\ i' = i + 1
    /\ pc' = "loop"
    /\ pre' = Scene
    /\ step' = "ExpandFails"
    /\ UNCHANGED <<uiGap, node0, node, children, parent, selection, direction, gap, pushEnabled,
                   sortedSelection, processedIds, newSelection, autoLayoutWarning,
                   lastUsedEffectiveGap, origin>>

\* after the loop: if (newSelection.length > 0) figma.notify(...)
Finish ==
    /\ pc = "loop" /\ i > Len(sortedSelection)
    /\ notes' = IF Len(newSelection) > 0
                THEN Append(notes, IF autoLayoutWarning THEN "auto-layout" ELSE "gap")
                ELSE notes
    /\ pc' = "done"
    /\ pre' = Scene
    /\ step' = "Finish"
    /\ UNCHANGED <<uiGap, node0, node, children, parent, selection, direction, gap, pushEnabled,
                   sortedSelection, i, processedIds, newSelection, autoLayoutWarning,
                   lastUsedEffectiveGap, clone, origin>>

Next ==
    \/ EmptySelection
    \/ Start
    \/ AutoLayoutDuplicate
    \/ AutoLayoutFails
    \/ PushStep
    \/ CloneAndPlace
    \/ CloneFails
    \/ Expand
    \/ ExpandFails
    \/ Finish

Spec == Init /\ [][Next]_vars

\* =================================================================== claims
Clones == DOMAIN origin
Kids == Range(children)
FreeForm == ~isAutoLayout(parent)

\* the signed offset a direction names on each axis
SignX(d) == IF d \in {"left", "top-left", "bottom-left"} THEN -1
            ELSE IF d \in {"right", "top-right", "bottom-right"} THEN 1 ELSE 0
SignY(d) == IF d \in {"top", "top-left", "top-right"} THEN -1
            ELSE IF d \in {"bottom", "bottom-left", "bottom-right"} THEN 1 ELSE 0

\* the gap the batch uses for a node of width w
GapFor(w) == IF gap # NoGap THEN gap ELSE IF w > px(400) THEN px(100) ELSE px(40)

\* a record's rectangle moved by (dx, dy)
Moved(r, dx, dy) == [x |-> r.x + dx, y |-> r.y + dy, width |-> r.width, height |-> r.height]

\* the state right after a pushSiblings call for sortedSelection[i]; pre is the
\* scene the call started from
AfterPush == step = "PushStep" /\ pushEnabled
PushDX == SignX(direction) * (pre.node[Current].width + GapFor(pre.node[Current].width))
PushDY == SignY(direction) * (pre.node[Current].height + GapFor(pre.node[Current].width))
PushTarget == Moved(pre.node[Current], PushDX, PushDY)
DisplacedBy(n, dx, dy) ==
    /\ node[n].x = pre.node[n].x + dx
    /\ node[n].y = pre.node[n].y + dy
Unmoved(n) == DisplacedBy(n, 0, 0)

\* C1: after a batch with push enabled in a free-form parent, no other child of
\* the parent overlaps a placed duplicate (0.5-margin test).
C1_DuplicateOverlapsNothing ==
    (pc = "done" /\ pushEnabled /\ FreeForm) =>
        \A c \in Clones : \A s \in Kids \ {c} : ~Overlaps(node[s], node[c])

\* C2: a pushSiblings call leaves x and y of every child whose id is in the
\* excluded set as they were before the call.
C2_ExcludedNeverMoved ==
    AfterPush => \A e \in processedIds : Unmoved(e)

C2_Witness ==
    /\ AfterPush
    /\ \E m \in Kids \ processedIds :
          /\ ~Unmoved(m)
          /\ \E e \in processedIds \ {Current} : Overlaps(node[e], node[m])

SideBySide(a, b) ==
    /\ node0[a].y = node0[b].y
    /\ node0[a].height = node0[b].height
    /\ \/ node0[a].x + node0[a].width <= node0[b].x
       \/ node0[b].x + node0[b].width <= node0[a].x

\* C4: two side-by-side elements of a free-form parent, both selected and
\* duplicated to the right with push enabled: the duplicates overlap neither
\* each other nor either original, whatever the selection order.
C4_RightwardPairNoOverlap ==
    (/\ pc = "done" /\ pushEnabled /\ FreeForm /\ direction = "right"
     /\ Len(selection) = 2 /\ Len(newSelection) = 2
     /\ SideBySide(selection[1], selection[2]))
    => \A c \in Clones : \A s \in (Clones \cup Range(selection)) \ {c} :
           ~Overlaps(node[s], node[c])

\* C5 as stated: over every step of a batch, container adaptation included, a
\* direction without a horizontal token changes no x of an existing element and
\* each clone has the x of its original; likewise for y without a vertical token.
C5_DirectionDecomposition ==
    /\ SignX(direction) = 0 =>
          /\ \A n \in DOMAIN pre.node : node[n].x = pre.node[n].x
          /\ \A c \in Clones : node[c].x = node[origin[c]].x
    /\ SignY(direction) = 0 =>
          /\ \A n \in DOMAIN pre.node : node[n].y = pre.node[n].y
          /\ \A c \in Clones : node[c].y = node[origin[c]].y

\* C5 amended: the same for every step but container adaptation (Expand), whose
\* left and top rules shift the unlocked children whatever the direction; each
\* clone keeps the x (the y) of its original through every step.
C5_DecompositionOutsideAdaptation ==
    /\ SignX(direction) = 0 =>
          /\ step # "Expand" => \A n \in DOMAIN pre.node : node[n].x = pre.node[n].x
          /\ \A c \in Clones : node[c].x = node[origin[c]].x
    /\ SignY(direction) = 0 =>
          /\ step # "Expand" => \A n \in DOMAIN pre.node : node[n].y = pre.node[n].y
          /\ \A c \in Clones : node[c].y = node[origin[c]].y

C5_Witness ==
    /\ AfterPush
    /\ direction = "bottom"
    /\ \E n \in Kids : node[n].y # pre.node[n].y /\ node[n].x = pre.node[n].x

\* C6: a batch duplicating the single element A in a free-form, non-grouping
\* parent with push enabled puts the clone at A's position offset by width + gap
\* (height + gap) along each axis the direction names, and every other sibling
\* that overlapped that target rectangle ends displaced by the same offset; with
\* A(x=0,w=100), auto gap and direction right the clone is at x=140, A's y, and a
\* sibling B(x=140,w=100) in A's row ends at x=280; with no sibling only the
\* clone appears.
C6_SinglePushAndPlace ==
    (/\ pc = "done" /\ pushEnabled /\ Len(selection) = 1 /\ Clones # {}
     /\ parent.type = "FRAME" /\ parent.layoutMode = "NONE")
    => LET a == selection[1]
           w == node0[a].width
           dx == SignX(direction) * (w + GapFor(w))
           dy == SignY(direction) * (node0[a].height + GapFor(w))
           scenario == direction = "right" /\ gap = NoGap
                          /\ node0[a].x = 0 /\ w = px(100)
       IN  /\ \A c \in Clones :
                 /\ node[c].x = node0[a].x + dx
                 /\ node[c].y = node0[a].y + dy
                 /\ node[c].width = w /\ node[c].height = node0[a].height
                 /\ scenario => node[c].x = px(140) /\ node[c].y = node0[a].y
           /\ node[a] = node0[a]
           /\ \A s \in Originals \ {a} :
                 /\ Overlaps(node0[s], Moved(node0[a], dx, dy)) =>
                       /\ node[s].x = node0[s].x + dx
                       /\ node[s].y = node0[s].y + dy
                 /\ (/\ scenario /\ node0[s].x = px(140) /\ node0[s].width = px(100)
                     /\ node0[s].y = node0[a].y) => node[s].x = px(280)
           /\ Originals = {a} => Cardinality(DOMAIN node) = 2

C6_Witness ==
    /\ pc = "done" /\ pushEnabled /\ Len(selection) = 1 /\ Clones # {}
    /\ parent.type = "FRAME" /\ parent.layoutMode = "NONE"
    /\ direction = "right" /\ gap = NoGap
    /\ node0[selection[1]].x = 0 /\ node0[selection[1]].width = px(100)
    /\ \E s \in Originals : node0[s].x = px(140) /\ node[s].x = px(280)

\* the clone the last Expand step adapted its container to
Placed == newSelection[Len(newSelection)]

\* C7: expandSectionIfNeeded on an element with x = -10 under an unlocked
\* grouping container moves the container's x by -90 and the x of every unlocked
\* child by +90.
C7_LeftEdgeAdaptation ==
    (step = "Expand" /\ Adapts(pre.parent) /\ pre.node[Placed].x = 0 - px(10))
    => /\ parent.x = pre.parent.x - px(90)
       /\ \A k \in Range(pre.children) :
             ~pre.node[k].locked => node[k].x = pre.node[k].x + px(90)

C7_Witness ==
    /\ step = "Expand" /\ Adapts(pre.parent) /\ pre.node[Placed].x = 0 - px(10)
    /\ parent.x = pre.parent.x - px(90)
    /\ \E k \in Range(pre.children) \ {Placed} :
          ~pre.node[k].locked /\ node[k].x = pre.node[k].x + px(90)

\* C8: whenever the left-edge (top-edge) rule of expandSectionIfNeeded fires,
\* every child of the container, locked or not, keeps its absolute x (y).
C8_ChildrenStationary ==
    (step = "Expand" /\ Adapts(pre.parent))
    => /\ pre.node[Placed].x < px(80) =>
             \A k \in Kids : parent.x + node[k].x = pre.parent.x + pre.node[k].x
       /\ pre.node[Placed].y < px(80) =>
             \A k \in Kids : parent.y + node[k].y = pre.parent.y + pre.node[k].y

\* C9: after a batch, every clone created inside an unlocked grouping container
\* lies inside the container's padded bounds.
C9_ClonesInsidePaddedBounds ==
    (pc = "done" /\ Adapts(parent))
    => \A c \in Clones :
          /\ px(80) <= node[c].x
          /\ node[c].x + node[c].width <= parent.width - px(80)
          /\ px(80) <= node[c].y
          /\ node[c].y + node[c].height <= parent.height - px(80)

\* C10: under an auto-arranging parent the clone enters the child order right
\* after its original for directions with right or bottom and at the original's
\* index otherwise, no step of the batch writes an x or y (the clone keeps the
\* geometry it copied), and the batch reports the container-managed outcome.
C10_AutoLayoutPath ==
    /\ step = "AutoLayoutDuplicate" =>
          LET c == Placed
              k == CHOOSE j \in 1..Len(pre.children) : pre.children[j] = origin[c]
          IN  /\ SelectSeq(children, LAMBDA e : e # c) = pre.children
              /\ IF SignX(direction) = 1 \/ SignY(direction) = 1
                 THEN children[k] = origin[c] /\ children[k + 1] = c
                 ELSE children[k] = c /\ children[k + 1] = origin[c]
              /\ autoLayoutWarning
    /\ isAutoLayout(parent) =>
          /\ \A n \in DOMAIN pre.node : node[n] = pre.node[n]
          /\ \A c \in Clones : node[c] = node[origin[c]]
          /\ (pc = "done" /\ newSelection # << >>) =>
                notes # << >> /\ notes[Len(notes)] = "auto-layout"

C10_Witness ==
    /\ pc = "done" /\ isAutoLayout(parent)
    /\ direction = "right"
    /\ Len(newSelection) = 2
    /\ \E c \in Clones : \E k \in 1..(Len(children) - 2) :
          children[k] = origin[c] /\ children[k + 1] = c

\* C11: performDuplicate with an empty selection creates no element, reports the
\* empty-selection warning (and nothing else), and leaves every element's
\* geometry and the parent's child list as they were; the call is over.
C11_EmptySelectionNoEffect ==
    step = "EmptySelection" =>
        /\ notes = <<"empty">>
        /\ node = node0 /\ node = pre.node
        /\ children = pre.children /\ children = Identity(Cardinality(Originals))
        /\ parent = pre.parent
        /\ Clones = {} /\ newSelection = << >>
        /\ pc = "done"

C11_Witness ==
    /\ step = "EmptySelection" /\ selection = << >>
    /\ direction = "bottom-left"
    /\ Len(children) = NumNodes
    /\ notes = <<"empty">>

\* the per-element failure reports so far
FailedCount == Cardinality({k \in 1..Len(notes) : notes[k] = "failed"})
FailureSteps == {"CloneFails", "AutoLayoutFails", "ExpandFails"}

Element == IF pc = "loop" THEN sortedSelection[i - 1] ELSE sortedSelection[i]

\* C13: the gap used for each processed element is the explicit gap whenever one
\* is supplied (0 included) and otherwise 100 for an element wider than 400 and
\* 40 for one of width at most 400, and the clone is placed with that gap;
\* getDetectedGap gives 40 for an empty selection and otherwise 100 or 40 by the
\* width of the first selected element alone.
C13_EffectiveGap ==
    /\ step \in {"PushStep", "AutoLayoutDuplicate", "AutoLayoutFails"} =>
          lastUsedEffectiveGap =
              IF gap # NoGap THEN gap
              ELSE IF node[Element].width > px(400) THEN px(100) ELSE px(40)
    /\ step = "CloneAndPlace" =>
          LET w == node[Element].width
              g == IF gap # NoGap THEN gap ELSE IF w > px(400) THEN px(100) ELSE px(40)
          IN  /\ node[clone].x = node[Element].x + SignX(direction) * (w + g)
              /\ node[clone].y = node[Element].y
                                   + SignY(direction) * (node[Element].height + g)
    /\ \A g \in {0, px(10), px(400)} : \A k \in DOMAIN Rects :
          EffectiveGap(g, Rects[k]) = g
    /\ uiGap = IF selection = << >> THEN px(40)
               ELSE IF node0[selection[1]].width > px(400) THEN px(100) ELSE px(40)

C13_Witness ==
    /\ step = "PushStep" /\ gap = NoGap
    /\ Len(selection) = 2
    /\ node[selection[1]].width = px(100) /\ uiGap = px(40)
    /\ node[Element].width = px(500) /\ lastUsedEffectiveGap = px(100)

\* the position of a selected element in the processing order
Position(e) == CHOOSE k \in 1..Len(sortedSelection) : sortedSelection[k] = e

\* elements are handled one after the other: clones are created in processing
\* order, every element before the current one is finished (a clone in
\* newSelection or a failure report), and the one clone not yet adapted to, if
\* any, belongs to the current element
OneAtATime ==
    /\ \A c1, c2 \in Clones : c1 < c2 => Position(origin[c1]) < Position(origin[c2])
    /\ pc \in {"loop", "clone", "expand"} =>
          /\ Len(newSelection) + FailedCount = i - 1
          /\ \A c \in Clones \ {clone} : Position(origin[c]) < i
    /\ pc = "expand" => clone \in Clones /\ origin[clone] = sortedSelection[i]
    /\ pc # "expand" => clone = 0

\* sortedSelection is ordered by key, descending or ascending, over the
\* positions the elements had when the batch began
Ordered(key(_), descending) ==
    \A j, k \in 1..Len(sortedSelection) :
        j < k => IF descending
                 THEN key(node0[sortedSelection[j]]) >= key(node0[sortedSelection[k]])
                 ELSE key(node0[sortedSelection[j]]) <= key(node0[sortedSelection[k]])

KeyX(nd) == nd.x
KeyY(nd) == nd.y

\* C14 as stated: for all 8 directions the elements are processed in descending
\* x when the direction includes right, ascending x when it includes left,
\* descending y when it includes bottom and ascending y when it includes top, and
\* each element is finished before the next begins.
C14_ProcessingOrder ==
    /\ Includes(direction, "right") => Ordered(KeyX, TRUE)
    /\ Includes(direction, "left") => Ordered(KeyX, FALSE)
    /\ Includes(direction, "bottom") => Ordered(KeyY, TRUE)
    /\ Includes(direction, "top") => Ordered(KeyY, FALSE)
    /\ OneAtATime

\* C14 amended: a direction with a horizontal token orders the elements by x
\* alone (descending for right, ascending for left), the vertical token of a
\* diagonal playing no part; bottom and top alone order them by y (descending,
\* ascending); equal keys keep the order of the selection; and each element is
\* finished before the next begins.
C14_OrderByFirstToken ==
    /\ Includes(direction, "right") => Ordered(KeyX, TRUE)
    /\ Includes(direction, "left") => Ordered(KeyX, FALSE)
    /\ direction = "bottom" => Ordered(KeyY, TRUE)
    /\ direction = "top" => Ordered(KeyY, FALSE)
    /\ \A j, k \in 1..Len(selection) :
          LET a == node0[selection[j]]
              b == node0[selection[k]]
          IN  (/\ j < k
               /\ IF SignX(direction) # 0 THEN a.x = b.x ELSE a.y = b.y)
              => Position(selection[j]) < Position(selection[k])
    /\ OneAtATime

C14_Witness ==
    /\ direction = "bottom-right"
    /\ step = "PushStep" /\ i = 2 /\ Len(newSelection) = 1
    /\ sortedSelection # selection
    /\ node0[sortedSelection[1]].x > node0[sortedSelection[2]].x
    /\ node0[sortedSelection[1]].y < node0[sortedSelection[2]].y

\* C15: in a free-form parent the set handed to pushSiblings holds, at every
\* call of a batch, all selected originals and every duplicate created so far,
\* and no call displaces a selected original or a duplicate made for an earlier
\* element.
C15_BatchExclusionSet ==
    /\ (FreeForm /\ pc \in {"loop", "clone", "expand"}) =>
          processedIds = Range(selection) \cup Clones
    /\ step = "PushStep" =>
          /\ Range(selection) \cup Clones \subseteq processedIds
          /\ \A n \in Range(selection) \cup Clones : node[n] = pre.node[n]

C15_Witness ==
    /\ AfterPush /\ i > 1
    /\ \E c \in Clones : Overlaps(node[c], PushTarget) /\ Unmoved(c)
    /\ \E m \in Kids \ processedIds : ~Unmoved(m)

\* C16: a batch with pushEnabled = false under a parent that is not a grouping
\* container leaves x, y, width and height of every element that existed before
\* it unchanged, during the batch and after it; the parent keeps its geometry
\* and the old children their order; only clones are added.
C16_PushDisabledFrame ==
    (~pushEnabled /\ parent.type # "SECTION") =>
        /\ \A n \in Originals : node[n] = node0[n]
        /\ parent = pre.parent
        /\ DOMAIN node = Originals \cup Clones
        /\ SelectSeq(children, LAMBDA e : e \in Originals) = Identity(Cardinality(Originals))
        /\ Range(children) = Originals \cup Clones

C16_Witness ==
    /\ pc = "done" /\ ~pushEnabled /\ FreeForm /\ parent.type # "SECTION"
    /\ Len(newSelection) = 2
    /\ \E c \in Clones : \E s \in Originals \ Range(selection) :
          Overlaps(node[s], node[c])

Min(a, b) == IF a < b THEN a ELSE b
Max(a, b) == IF a > b THEN a ELSE b

\* how deep the intersection of two rectangles is on each axis (negative when
\* they are apart), in half units
DepthX(a, b) == Min(a.x + a.width, b.x + b.width) - Max(a.x, b.x)
DepthY(a, b) == Min(a.y + a.height, b.y + b.height) - Max(a.y, b.y)

\* the intersection is at most 0.5 units deep on at least one axis
Touches(a, b) == DepthX(a, b) <= 1 \/ DepthY(a, b) <= 1

\* wider and higher than 0.5 units
Thick(r) == r.width > 1 /\ r.height > 1

\* sibling s overlaps the shifted rectangle of no other sibling the call moved
ClearOfDisplaced(s) ==
    \A m \in Kids \ (processedIds \cup {s}) :
        ~Unmoved(m) => ~Overlaps(pre.node[s], Moved(pre.node[m], PushDX, PushDY))

\* C17 as stated: a non-excluded sibling whose intersection with the target
\* rectangle is at most 0.5 units deep on at least one axis, and that overlaps no
\* other displaced sibling's shifted rectangle, is not moved by pushSiblings.
C17_AdjacencyIsNotCollision ==
    AfterPush =>
        \A s \in Kids \ processedIds :
            (Touches(pre.node[s], PushTarget) /\ ClearOfDisplaced(s)) => Unmoved(s)

\* C17 amended: the same for a sibling and a target rectangle that are both
\* wider and higher than 0.5 units; a thinner sibling (a line of height 0)
\* lying inside the target passes the overlap test and is moved.
C17_AdjacencyOfThickRectangles ==
    AfterPush =>
        \A s \in Kids \ processedIds :
            (/\ Thick(pre.node[s]) /\ Thick(PushTarget)
             /\ Touches(pre.node[s], PushTarget)
             /\ ClearOfDisplaced(s)) => Unmoved(s)

\* a sibling exactly 0.5 units inside the target, level with it, stays
C17_Witness ==
    /\ AfterPush
    /\ \E s \in Kids \ processedIds :
          /\ Thick(pre.node[s]) /\ Thick(PushTarget)
          /\ DepthX(pre.node[s], PushTarget) = 1
          /\ DepthY(pre.node[s], PushTarget) > 1
          /\ ClearOfDisplaced(s)
          /\ Unmoved(s)

\* the siblings the last pushSiblings call collected, in the order it enqueued
\* their shifted rectangles
Collected ==
    NodesToMove(pre.node, pre.children, Current, direction,
                pre.node[Current].width + lastUsedEffectiveGap,
                pre.node[Current].height + lastUsedEffectiveGap, processedIds)

\* C18: in every pushSiblings call the traversal ends: no sibling is collected
\* (and its rectangle enqueued) twice, so the queue takes at most one rectangle
\* per non-excluded child besides the target and empties; every collected
\* sibling has the shift applied exactly once and no other child is touched.
C18_TraversalTerminates ==
    AfterPush =>
        /\ \A j, k \in 1..Len(Collected) : j # k => Collected[j] # Collected[k]
        /\ Range(Collected) \subseteq Kids \ processedIds
        /\ Len(Collected) <= Cardinality(Kids \ processedIds)
        /\ \A n \in Kids :
              IF n \in Range(Collected) THEN DisplacedBy(n, PushDX, PushDY)
              ELSE Unmoved(n)

\* two collected siblings each lying on the other's shifted rectangle
C18_Witness ==
    /\ AfterPush
    /\ \E a, b \in Range(Collected) :
          /\ a # b
          /\ Overlaps(pre.node[a], Moved(pre.node[b], PushDX, PushDY))
          /\ Overlaps(pre.node[b], Moved(pre.node[a], PushDX, PushDY))
          /\ DisplacedBy(a, PushDX, PushDY) /\ DisplacedBy(b, PushDX, PushDY)

\* C19: when node.clone() raises for an element of a free-form parent with push
\* enabled, no duplicate is created for it and the scene is as it was before
\* that element's processing began (pre, at the failing step, is the scene the
\* element's pushSiblings call started from).
C19_FailedElementNoSideEffects ==
    [][(step' = "CloneFails" /\ pushEnabled) =>
          /\ DOMAIN origin' = DOMAIN origin
          /\ children' = pre.children
          /\ \A n \in DOMAIN pre.node :
                node'[n].x = pre.node[n].x /\ node'[n].y = pre.node[n].y]_vars

====
